---------------------------- MODULE Spec2Model ----------------------------
(***************************************************************************)
(* A model of Routing::Impl (src/src/maidsafe/routing/routing_impl.cc):    *)
(* the join / recovery state machine, the three asio deadline timers, the  *)
(* 2-worker asio task queue, Send with its relay path, and the handlers    *)
(* posted by the transport callbacks.                                      *)
(*                                                                         *)
(* Collaborators whose code is not part of the sources at hand (the        *)
(* response Timer, the RoutingTable, NetworkUtils, MessageHandler and      *)
(* Parameters) are modelled from the design document; they are the         *)
(* definitions marked "from the design" below.                             *)
(*                                                                         *)
(* Every operation of Routing::Impl is an operator from a node state (a    *)
(* record with one field per variable) to the node state after it, so      *)
(* that a handler that calls another (DoReBootstrap -> DoJoin ->           *)
(* DoBootstrap -> FindClosestNode) is the composition of their operators.  *)
(* random_node_helper_ and the non-routing table hold no state that any    *)
(* operation below reads back; they are left out (the non-routing table    *)
(* is empty, DropConnection finds nothing).                                *)
(***************************************************************************)
EXTENDS Integers, Sequences, FiniteSets, TLC

VARIABLES
  running,                        \* running_
  functors_network_status,        \* functors_.network_status is set
  kAnonymousNode,                 \* kAnonymousNode_
  client_mode,                    \* routing_table_.client_mode()
  routing_table,                  \* routing_table_: set of NodeInfo
  bootstrap_connection_id,        \* network_.bootstrap_connection_id()
  this_node_relay_connection_id,  \* network_.this_node_relay_connection_id()
  attached,                       \* the transport holds OnMessageReceived / OnConnectionLost
  setup_timer,                    \* setup_timer_: its pending waits
  recovery_timer,                 \* recovery_timer_
  re_bootstrap_timer,             \* re_bootstrap_timer_
  queue,                          \* asio_service_: handlers posted and not yet run
  in_flight,                      \* relay sends the transport has not yet completed
  task_id,                        \* timer_: the next task id
  tasks,                          \* timer_: the tasks added so far
  ended,                          \* the host has received a session-ended code
  ev,                             \* what the last step did (the observable effects)
  originator,                     \* the FindGroup request at hand
  response                        \* the FindGroupResponse built from it

vars == <<running, functors_network_status, kAnonymousNode, client_mode,
          routing_table, bootstrap_connection_id, this_node_relay_connection_id,
          attached, setup_timer, recovery_timer, re_bootstrap_timer, queue,
          in_flight, task_id, tasks, ended, ev, originator, response>>

(***************************************************************************)
(* Bounds of the model.                                                    *)
(***************************************************************************)
MaxQueue == 2         \* handlers waiting in the asio queue
MaxTasks == 2         \* response tasks added over a run
MaxInFlight == 1      \* relay sends awaiting their transport completion
MaxAttempts == 4      \* find-close-node attempts carried by a setup wait
MaxRange == 3         \* the largest range IsThisNodeInRange is asked for
MaxLag == 12          \* seconds of delay told apart; longer ones count as MaxLag

(***************************************************************************)
(* Identifiers.  NodeId is a 512-bit value; the model uses small naturals, *)
(* 0 being the zero id.                                                    *)
(***************************************************************************)
ZeroId == 0
FirstTaskIds == {0, 1}      \* the values timer_'s id counter may start from
pool_size == 2              \* asio_service_(2)
kNodeId == 1
kRelayConnectionId == 6
BootstrapPeers == {5}

IsZero(id) == id = ZeroId

\* NodeInfo{node_id, connection_id}
NodeInfo(n, c) == [node_id |-> n, connection_id |-> c]
ZeroNode == NodeInfo(ZeroId, ZeroId)
Peers == {NodeInfo(2, 2), NodeInfo(3, 3)}

(***************************************************************************)
(* Parameters (from the design): tunable statics, scaled to the model.     *)
(***************************************************************************)
node_group_size == 2
closest_nodes_size == 2
max_routing_table_size == 6
routing_table_size_threshold == 4
maximum_find_close_node_failures == 3
max_data_size == 1048576
hops_to_live == 50
find_close_node_interval == 5     \* seconds
find_node_interval == 60
recovery_time_lag == 1
re_bootstrap_time_lag == 10

(***************************************************************************)
(* Return codes (maidsafe/routing/return_codes.h, from the design).        *)
(***************************************************************************)
kSuccess == 0
kNetworkShuttingDown == -1
kNotJoined == -2
kAnonymousSessionEnded == -3
kPartialJoinSessionEnded == -4
kBootstrapConnectionAlreadyExists == -6
kTransportError == -5
SessionEnded == {kAnonymousSessionEnded, kPartialJoinSessionEnded}

(***************************************************************************)
(* The node state as one record, and its effects field.  ev describes what *)
(* the last step did: the envelopes handed to the transport, the handlers  *)
(* and callbacks invoked, the timers armed.                                *)
(***************************************************************************)
(***************************************************************************)
(* Envelopes (protobuf::Message).  An unset id reads as 0, as              *)
(* proto_message.id() does; relay is "the relay fields are set".           *)
(***************************************************************************)
NoMsg ==
  [type |-> "none", destination_id |-> ZeroId, has_id |-> FALSE, id |-> 0,
   replication |-> 0, direct |-> FALSE, request |-> FALSE,
   client_node |-> FALSE, relay |-> FALSE, relay_id |-> ZeroId,
   relay_connection_id |-> ZeroId, source_id |-> ZeroId, num_nodes |-> 0,
   connection_id |-> ZeroId]

NoArgs ==
  [destination_id |-> ZeroId, data_size |-> 0, response_functor |-> FALSE,
   direct |-> FALSE]

NoEffects ==
  [op |-> "none",
   args |-> NoArgs,      \* the arguments of the host's call
   ec |-> "ok",          \* the error code the handler was run with
   n |-> 0,              \* the handler's id argument
   b |-> FALSE,          \* the handler's flag
   lag |-> 0,            \* seconds from the event behind the handler to its run
   outer |-> "own",      \* the enclosing call's error code, if the wait's lambda tests it
   msg |-> NoMsg,        \* the message the handler was posted with
   direct |-> <<>>,      \* network_.SendToDirect(envelope, connection id)
   closest |-> <<>>,     \* network_.SendToClosestNode(envelope)
   local |-> <<>>,       \* OnMessageReceived called by Send itself
   received |-> <<>>,    \* envelopes given to the host's message_received
   boot |-> 0,           \* calls of network_.Bootstrap
   removed |-> {},       \* network_.Remove(connection id)
   armed |-> {},         \* timers given a new wait
   status |-> <<>>,      \* codes given to functors_.network_status
   callbacks |-> <<>>,   \* response functors invoked: [id, len]
   added |-> <<>>,       \* ids returned by timer_.AddTask
   cancels |-> <<>>,     \* ids given to timer_.CancelTask
   ret |-> kSuccess,     \* the value returned to the caller
   \* running_mutex_: the running thread holds it, the acquisitions so far,
   \* and whether it was acquired by the thread holding it
   mutex |-> [held |-> FALSE, locks |-> 0, relock |-> FALSE]]

Cur ==
  [running |-> running,
   functors_network_status |-> functors_network_status,
   kAnonymousNode |-> kAnonymousNode,
   client_mode |-> client_mode,
   routing_table |-> routing_table,
   bootstrap_connection_id |-> bootstrap_connection_id,
   this_node_relay_connection_id |-> this_node_relay_connection_id,
   attached |-> attached,
   setup_timer |-> setup_timer,
   recovery_timer |-> recovery_timer,
   re_bootstrap_timer |-> re_bootstrap_timer,
   queue |-> queue,
   in_flight |-> in_flight,
   task_id |-> task_id,
   tasks |-> tasks,
   ended |-> ended,
   ev |-> ev]

\* The state an operation starts from: the current one, its effects cleared.
Begin(op) == [Cur EXCEPT !.ev = [NoEffects EXCEPT !.op = op]]

\* ... a host call with its arguments, a handler with the values it was posted with
BeginCall(op, args) == [Cur EXCEPT !.ev = [NoEffects EXCEPT !.op = op, !.args = args]]

BeginHandler(h) ==
  [Cur EXCEPT !.ev = [NoEffects EXCEPT !.op = h.type, !.ec = h.ec, !.n = h.n, !.b = h.b,
                                !.lag = h.lag, !.outer = h.outer,
                                !.msg = h.msg]]

Emit(s, field, x) == [s EXCEPT !.ev[field] = Append(@, x)]

(***************************************************************************)
(* running_mutex_, a std::mutex, as the thread running the step sees it.   *)
(***************************************************************************)
\* std::lock_guard<std::mutex> lock(running_mutex_)
Lock(s) ==
  [s EXCEPT !.ev.mutex = [held |-> TRUE,
                          locks |-> @.locks + 1,
                          relock |-> @.relock \/ @.held]]

\* (a guard that keeps the mutex when it goes out of scope)
UnlockNever(s) == s

\* the lock_guard goes out of scope
Unlock(s) == [s EXCEPT !.ev.mutex.held = FALSE]

(***************************************************************************)
(* XOR distance on NodeId (from the design: d(x, y) = x XOR y).            *)
(***************************************************************************)
RECURSIVE Xor(_, _)
Xor(a, b) ==
  IF a = 0 THEN b
  ELSE IF b = 0 THEN a
  ELSE (((a % 2) + (b % 2)) % 2) + (2 * Xor(a \div 2, b \div 2))

\* NodeId::CloserToTarget(id1, id2, target)
CloserToTarget(id1, id2, target) == Xor(id1, target) < Xor(id2, target)

(***************************************************************************)
(* RoutingTable (from the design, section 4.1).                            *)
(***************************************************************************)
Size(s) == Cardinality(s.routing_table)

\* RoutingTable::GetClosestNode(target): the entry minimising d(., target)
GetClosestNode(s, target) ==
  IF s.routing_table = {} THEN ZeroNode
  ELSE CHOOSE p \in s.routing_table :
         \A q \in s.routing_table : Xor(p.node_id, target) <= Xor(q.node_id, target)

\* RoutingTable::GetNodeInfo(connection_id, out node): the entry, or the zero node
GetNodeInfo(s, connection_id) ==
  IF \E p \in s.routing_table : p.connection_id = connection_id
  THEN CHOOSE p \in s.routing_table : p.connection_id = connection_id
  ELSE ZeroNode

\* RoutingTable::IsThisNodeInRange(target, n): fewer than n entries lie
\* strictly closer to target than this node does
\* (a range one entry wider)
IsThisNodeInRangeUpTo(s, target, n) ==
  Cardinality({p \in s.routing_table :
                 CloserToTarget(p.node_id, kNodeId, target)}) <= n

IsThisNodeInRange(s, target, n) ==
  Cardinality({p \in s.routing_table :
                 CloserToTarget(p.node_id, kNodeId, target)}) < n

\* The same predicate as the design's testable property 4 words it: the
\* n-th smallest distance from an entry to the target, which a table of
\* fewer than n entries does not have.
Distances(s, target) == {Xor(p.node_id, target) : p \in s.routing_table}

HasNthSmallest(D, n) == Cardinality(D) >= n

NthSmallest(D, n) == CHOOSE d \in D : Cardinality({e \in D : e < d}) = n - 1

NthSmallestIsFarther(s, target, n) ==
  /\ HasNthSmallest(Distances(s, target), n)
  /\ NthSmallest(Distances(s, target), n) > Xor(kNodeId, target)

(***************************************************************************)
(* The network of fully joined nodes (from the design, section 4.3, "next  *)
(* hop", "group fan-out" and "receive contract"): this node and the peers  *)
(* of its routing table, each holding every other node in its own table.   *)
(* A request goes hop by hop to the table entry nearest its destination;   *)
(* the first node in range of the destination processes it and forwards    *)
(* one copy to each of the CloseGroupSize - 1 entries nearest the          *)
(* destination, and a copy is processed by the peer it is addressed to.    *)
(***************************************************************************)
NetworkNodes(s) == {kNodeId} \cup {p.node_id : p \in s.routing_table}

TableAt(nodes, at) == nodes \ {at}

\* closest_nodes(target, n), as the set of the n ids nearest target
NearestTo(ids, target, n) ==
  {p \in ids : Cardinality({q \in ids : Xor(q, target) < Xor(p, target)}) < n}

InRangeAt(nodes, at, target, n) ==
  Cardinality({p \in TableAt(nodes, at) : Xor(p, target) < Xor(at, target)}) < n

NextHop(nodes, at, target) ==
  CHOOSE p \in TableAt(nodes, at) :
    \A q \in TableAt(nodes, at) : Xor(p, target) <= Xor(q, target)

\* how often each node processes the request msg, which node at has received
\* with hops left to live
RECURSIVE GroupDeliveries(_, _, _, _)
GroupDeliveries(nodes, at, msg, hops) ==
  IF hops = 0 \/ TableAt(nodes, at) = {}
  THEN [x \in nodes |-> 0]
  ELSE IF msg.replication > 1
          /\ InRangeAt(nodes, at, msg.destination_id, node_group_size)
  THEN [x \in nodes |->
          (IF x = at THEN 1 ELSE 0)
          + (IF x \in NearestTo(TableAt(nodes, at), msg.destination_id,
                                node_group_size - 1)
             THEN 1 ELSE 0)]
  ELSE IF msg.replication = 1
          /\ \A q \in TableAt(nodes, at) :
                Xor(at, msg.destination_id) < Xor(q, msg.destination_id)
  THEN [x \in nodes |-> IF x = at THEN 1 ELSE 0]
  ELSE GroupDeliveries(nodes, NextHop(nodes, at, msg.destination_id), msg, hops - 1)

(***************************************************************************)
(* Routing::Impl::NotifyNetworkStatus                                      *)
(***************************************************************************)
NotifyNetworkStatus(s, return_code) ==
  IF s.functors_network_status
  THEN [Emit(s, "status", return_code) EXCEPT
          !.ended = @ \/ return_code \in SessionEnded]
  ELSE s

\* network_.Remove(connection_id)
NetworkRemove(s, connection_id) ==
  [s EXCEPT !.ev.removed = @ \cup {connection_id}]

\* rpcs::FindNodes(kNodeId_, kNodeId_, num_nodes_requested, relay, relay_connection_id)
FindNodes(s, num_nodes_requested, relay_message) ==
  [NoMsg EXCEPT !.type = "kFindNodes", !.destination_id = kNodeId,
                !.request = TRUE, !.direct = TRUE, !.replication = 1,
                !.client_node = s.client_mode,
                !.num_nodes = num_nodes_requested,
                !.relay = relay_message,
                !.relay_id = IF relay_message THEN kNodeId ELSE ZeroId,
                !.relay_connection_id =
                   IF relay_message THEN s.this_node_relay_connection_id ELSE ZeroId,
                !.source_id = IF relay_message THEN ZeroId ELSE kNodeId]

(***************************************************************************)
(* Handlers in the asio queue.  ec is the error code the handler is run    *)
(* with; outer is the error code a lambda tests when that is not its own   *)
(* ("own" otherwise).  lag is the time from the event that set the chain   *)
(* of waits going (a call of the host or of the transport, or the last     *)
(* bootstrap) to the run of the handler, queueing apart; left is the time  *)
(* a pending wait still has to run.                                        *)
(***************************************************************************)
Handler(type, n, b) ==
  [type |-> type, ec |-> "ok", n |-> n, b |-> b, outer |-> "own", msg |-> NoMsg,
   lag |-> 0, left |-> 0]

\* asio_service_.service().post(handler)
Post(s, h) == [s EXCEPT !.queue = Append(@, h)]

\* deadline_timer::cancel(): every pending wait completes with operation_aborted
Cancel(s, t) ==
  [s EXCEPT ![t] = <<>>,
            !.queue = @ \o [i \in 1..Len(s[t]) |-> [s[t][i] EXCEPT !.ec = "aborted"]]]

\* when a wait of the given duration, started by the running step, elapses
Elapses(s, duration) ==
  LET from == IF s.ev.boot > 0 THEN 0 ELSE s.ev.lag
  IN IF from + duration > MaxLag THEN MaxLag ELSE from + duration

\* deadline_timer::expires_from_now(duration), which cancels the pending
\* waits, and async_wait(h)
Arm(s, t, duration, h) ==
  [Cancel(s, t) EXCEPT ![t] = <<[h EXCEPT !.lag = Elapses(s, duration),
                                          !.left = duration]>>,
                       !.ev.armed = @ \cup {t}]

(***************************************************************************)
(* The pending-response Timer (from the design, section 4.4).              *)
(***************************************************************************)
\* A task is in the table while pending; calls counts the invocations of
\* its functor over the whole run.
NewTask(expected) ==
  [pending |-> TRUE, expected |-> expected, responses |-> 0, calls |-> 0]

\* Timer::AddTask(timeout, functor, expected_responses): the id is s.task_id.
\* The 32-bit counter cannot wrap within MaxTasks additions from FirstTaskIds.
AddTask(s, expected) ==
  [s EXCEPT !.tasks = (s.task_id :> NewTask(expected)) @@ @,
            !.task_id = @ + 1,
            !.ev.added = Append(@, s.task_id)]

\* the task is finalised and removed; its functor gets the responses so far
Finalise(s, id) ==
  [s EXCEPT !.tasks[id] = [pending |-> FALSE, expected |-> 0, responses |-> 0,
                           calls |-> @.calls + 1],
            !.ev.callbacks = Append(@, [id |-> id, len |-> s.tasks[id].responses])]

IsPending(s, id) == id \in DOMAIN s.tasks /\ s.tasks[id].pending

\* Timer::CancelTask(id)
CancelTask(s, id) ==
  LET c == Emit(s, "cancels", id)
  IN IF IsPending(s, id) THEN Finalise(c, id) ELSE c

\* Timer::AddResponse(id, response): the last expected response finalises
AddResponse(s, id) ==
  IF ~IsPending(s, id) THEN s
  ELSE LET r == [s EXCEPT !.tasks[id].responses = @ + 1]
       IN IF r.tasks[id].responses >= r.tasks[id].expected THEN Finalise(r, id) ELSE r

\* the deadline of task id elapses
TaskTimeout(s, id) == IF IsPending(s, id) THEN Finalise(s, id) ELSE s

(***************************************************************************)
(* Routing::Impl::OnMessageReceived                                        *)
(***************************************************************************)
OnMessageReceived(s, message) ==
  LET l == Lock(s)
  IN Unlock(IF l.running
            THEN Post(l, [Handler("DoOnMessageReceived", 0, FALSE) EXCEPT !.msg = message])
            ELSE l)

(***************************************************************************)
(* Routing::Impl::Send.  data_size is data.size(); response_functor is     *)
(* "a functor was supplied".  group_claim, cacheable and the timeout only  *)
(* fill envelope fields that nothing reads back.                           *)
(***************************************************************************)
\* (a Send that forgets the upper limit on the data size)
ValidInputNoLimit(destination_id, data_size) ==
  /\ ~IsZero(destination_id)
  /\ ~(data_size = 0)

ValidInput(destination_id, data_size) ==
  /\ ~IsZero(destination_id)
  /\ ~(data_size = 0 \/ data_size > max_data_size)

\* (a Send that never raises replication above its initial 1)
ReplicationAlwaysOne(direct) == 1

Replication(direct) == IF direct THEN 1 ELSE node_group_size

ExpectedResponses(direct) == IF direct THEN 1 ELSE node_group_size

\* Anonymous node / partial join state
\* (a Send that relays for anonymous nodes only)
UseRelayAnonymousOnly(s) == s.kAnonymousNode

UseRelay(s) == s.kAnonymousNode \/ Size(s) = 0

\* (a Send that forgets the client-mode test)
ToSelfAlsoClient(s, destination_id) == ~(kNodeId # destination_id)

ToSelf(s, destination_id) == ~(kNodeId # destination_id) /\ ~s.client_mode

Send(s, destination_id, data_size, response_functor, direct) ==
  IF ~ValidInput(destination_id, data_size)
  THEN IF response_functor
       THEN Emit(s, "callbacks", [id |-> -1, len |-> 0])
       ELSE s
  ELSE
    LET s1 == IF response_functor THEN AddTask(s, ExpectedResponses(direct)) ELSE s
        proto_message ==
          [NoMsg EXCEPT !.type = "kNodeLevel",
                        !.destination_id = destination_id,
                        !.direct = direct,
                        !.client_node = s.client_mode,
                        !.request = TRUE,
                        !.has_id = response_functor,
                        !.id = IF response_functor THEN s.task_id ELSE 0,
                        !.replication = Replication(direct)]
    IN IF UseRelay(s1)
       THEN LET relayed ==
                  [proto_message EXCEPT
                     !.relay = TRUE,
                     !.relay_id = kNodeId,
                     !.relay_connection_id = s1.this_node_relay_connection_id]
                s2 == Emit(s1, "direct",
                           [to |-> s1.bootstrap_connection_id, msg |-> relayed])
            IN [s2 EXCEPT !.in_flight =
                             Append(@, [id |-> relayed.id, has_id |-> relayed.has_id])]
       ELSE LET sourced == [proto_message EXCEPT !.source_id = kNodeId]
            IN IF ToSelf(s1, destination_id)
               THEN OnMessageReceived(Emit(s1, "local", sourced), sourced)
               ELSE Emit(s1, "closest", sourced)

\* the rudp::MessageSentFunctor of a relay send: posts the handler of its
\* result.  The handler reads proto_message.id(); whether the id was ever set
\* goes with it only for the record.
MessageSent(s, i, result) ==
  LET h == [Handler("RelaySendResult", s.in_flight[i].id, s.in_flight[i].has_id) EXCEPT
              !.ec = IF result = kSuccess THEN "ok" ELSE "failed"]
  IN [Post(s, h) EXCEPT
        !.in_flight = [j \in 1..(Len(@) - 1) |-> IF j < i THEN @[j] ELSE @[j + 1]]]

\* (a handler that answers the functor itself and leaves the task pending)
RelaySendResultAnswersItself(s, h) ==
  IF h.ec # "ok" /\ IsPending(s, h.n)
  THEN [Emit(s, "callbacks", [id |-> h.n, len |-> 0]) EXCEPT !.tasks[h.n].calls = @ + 1]
  ELSE s

\* the handler posted by a relay send's MessageSentFunctor
RelaySendResult(s, h) ==
  IF h.ec # "ok"
  THEN LET c == CancelTask(s, h.n)
       IN IF s.kAnonymousNode
          THEN NotifyNetworkStatus(c, kAnonymousSessionEnded)
          ELSE NotifyNetworkStatus(c, kPartialJoinSessionEnded)
  ELSE s

(***************************************************************************)
(* network_.Bootstrap and network_.clear_bootstrap_connection_info (from   *)
(* the design, section 6).  outcome is what the transport answers: a code  *)
(* and, on success, the connection id of the bootstrap peer.               *)
(***************************************************************************)
BootstrapOutcomes ==
  [code : {kSuccess}, peer : BootstrapPeers] \cup
  [code : {kTransportError}, peer : {ZeroId}]

NetworkBootstrap(s, outcome) ==
  LET b == [s EXCEPT !.ev.boot = @ + 1, !.ev.ret = outcome.code, !.attached = TRUE]
  IN IF outcome.code = kSuccess
     THEN [b EXCEPT !.bootstrap_connection_id = outcome.peer,
                    !.this_node_relay_connection_id = kRelayConnectionId]
     ELSE b

ClearBootstrapConnectionInfo(s) ==
  [s EXCEPT !.bootstrap_connection_id = ZeroId,
            !.this_node_relay_connection_id = ZeroId]

(***************************************************************************)
(* Routing::Impl::ReBootstrap                                              *)
(***************************************************************************)
\* (a ReBootstrap that schedules nothing)
ReBootstrapNever(s) == s

ReBootstrap(s) ==
  LET l == Lock(s)
  IN Unlock(IF ~l.running THEN l
            ELSE Arm(l, "re_bootstrap_timer", re_bootstrap_time_lag,
                     Handler("ReBootstrapWait", 0, FALSE)))

(***************************************************************************)
(* Routing::Impl::RemoveNode, the routing table's remove_node functor      *)
(***************************************************************************)
\* (a RemoveNode that schedules recovery for internal removals too)
RemoveNodeAlwaysRecovers(s, node, internal_rudp_only) ==
  IF IsZero(node.connection_id) \/ IsZero(node.node_id) THEN s
  ELSE LET r == NetworkRemove(s, node.connection_id)
       IN IF IsThisNodeInRange(r, node.node_id, closest_nodes_size) /\ r.running
          THEN Arm(r, "recovery_timer", recovery_time_lag,
                   Handler("RecoveryWait", 0, TRUE))
          ELSE r

RemoveNode(s, node, internal_rudp_only) ==
  IF IsZero(node.connection_id) \/ IsZero(node.node_id) THEN s
  ELSE LET r == NetworkRemove(s, node.connection_id)
       IN IF internal_rudp_only THEN r
          ELSE IF IsThisNodeInRange(r, node.node_id, closest_nodes_size)
               THEN LET l == Lock(r)
                    IN Unlock(IF ~l.running THEN l
                              ELSE Arm(l, "recovery_timer", recovery_time_lag,
                                       Handler("RecoveryWait", 0, TRUE)))
               ELSE r

(***************************************************************************)
(* RoutingTable::AddNode and DropNode (from the design, section 4.1): the  *)
(* mutation, then on_remove and on_network_status(size).                   *)
(***************************************************************************)
\* (a table keyed by address alone)
AdmitsAnyConnection(s, peer) ==
  /\ ~s.kAnonymousNode
  /\ peer.node_id # kNodeId
  /\ ~IsZero(peer.node_id)
  /\ \A q \in s.routing_table : q.node_id # peer.node_id
  /\ Size(s) < max_routing_table_size

Admits(s, peer) ==
  /\ ~s.kAnonymousNode
  /\ peer.node_id # kNodeId
  /\ ~IsZero(peer.node_id)
  /\ \A q \in s.routing_table :
        q.node_id # peer.node_id /\ q.connection_id # peer.connection_id
  /\ Size(s) < max_routing_table_size

AddNode(s, peer) ==
  IF Admits(s, peer)
  THEN LET a == [s EXCEPT !.routing_table = @ \cup {peer}]
       IN NotifyNetworkStatus(a, Size(a))
  ELSE s

\* the entry DropNode(id, .) removes: id is a node id or a connection id
Dropped(s, id) ==
  IF \E p \in s.routing_table : p.node_id = id \/ p.connection_id = id
  THEN CHOOSE p \in s.routing_table : p.node_id = id \/ p.connection_id = id
  ELSE ZeroNode

DropNode(s, id, routing_only) ==
  LET node == Dropped(s, id)
  IN IF IsZero(node.node_id) THEN s
     ELSE LET d == [s EXCEPT !.routing_table = @ \ {node}]
          IN NotifyNetworkStatus(RemoveNode(d, node, routing_only), Size(d))

(***************************************************************************)
(* Routing::Impl::ReSendFindNodeRequest                                    *)
(***************************************************************************)
\* (a request that asks for the close group whenever a close node was lost)
NumNodesCloseGroup(s, ignore_size) ==
  IF ignore_size THEN closest_nodes_size ELSE max_routing_table_size

NumNodesRequested(s, ignore_size) ==
  IF ignore_size /\ Size(s) > routing_table_size_threshold
  THEN closest_nodes_size
  ELSE max_routing_table_size

\* the wait armed at the end of ReSendFindNodeRequest: its lambda tests the
\* enclosing call's error_code, not error_code_local
NextRecoveryWait(error_code) ==
  [Handler("RecoveryWait", 0, FALSE) EXCEPT !.outer = error_code]

\* ReSendFindNodeRequest past its test of error_code
ReSendFindNodes(s, error_code, ignore_size) ==
  IF Size(s) = 0 THEN ReBootstrap(s)
  ELSE IF ignore_size \/ Size(s) < routing_table_size_threshold
  THEN LET sent == Emit(s, "closest", FindNodes(s, NumNodesRequested(s, ignore_size), FALSE))
           l == Lock(sent)
       IN Unlock(IF ~l.running THEN l
                 ELSE Arm(l, "recovery_timer", find_node_interval,
                          NextRecoveryWait(error_code)))
  ELSE s

\* (a ReSendFindNodeRequest that does not test error_code)
ReSendFindNodeRequestUntested(s, error_code, ignore_size) ==
  ReSendFindNodes(s, error_code, ignore_size)

ReSendFindNodeRequest(s, error_code, ignore_size) ==
  IF error_code = "aborted" THEN s
  ELSE ReSendFindNodes(s, error_code, ignore_size)

(***************************************************************************)
(* Routing::Impl::FindClosestNode                                          *)
(***************************************************************************)
\* ++attempts.  FindClosestNode compares attempts with 0 and with
\* maximum_find_close_node_failures only, so the counts from MaxAttempts on,
\* which it treats alike, are kept as MaxAttempts.
Incremented(attempts) ==
  IF attempts < MaxAttempts THEN attempts + 1 ELSE MaxAttempts

\* (a setup loop that goes on after a peer is admitted)
SetupLoopNeverEnds(s, attempts) == FALSE

\* attempts != 0 and routing_table_.Size() > 0: exit the setup loop
SetupLoopEnds(s, attempts) == attempts # 0 /\ Size(s) > 0

FindClosestNode(s, error_code, attempts) ==
  LET c == Unlock(Lock(s))
  IN IF ~c.running THEN c
     ELSE IF error_code = "aborted" THEN c
     ELSE IF SetupLoopEnds(c, attempts)
     THEN \* exit the setup loop and start the recovery loop
          LET l == Lock(c)
          IN Unlock(IF ~l.running THEN l
                    ELSE Arm(l, "recovery_timer", find_node_interval,
                             Handler("RecoveryWait", 0, FALSE)))
     ELSE LET r == IF attempts # 0 /\ attempts >= maximum_find_close_node_failures
                   THEN ReBootstrap(c)
                   ELSE c
              sent == Emit(r, "direct",
                           [to |-> r.bootstrap_connection_id,
                            msg |-> FindNodes(r, 1, TRUE)])
              l == Lock(sent)
          IN Unlock(IF ~l.running THEN l
                    ELSE Arm(l, "setup_timer", find_close_node_interval,
                             Handler("SetupWait", Incremented(attempts), FALSE)))

(***************************************************************************)
(* Routing::Impl::DoBootstrap, DoJoin, DoReBootstrap                       *)
(***************************************************************************)
DoBootstrap(s, outcome) ==
  LET c == Lock(Cancel(Cancel(s, "recovery_timer"), "setup_timer"))
  IN Unlock(IF ~c.running THEN [c EXCEPT !.ev.ret = kNetworkShuttingDown]
            ELSE IF ~IsZero(c.bootstrap_connection_id)
                 THEN NetworkBootstrap(
                        ClearBootstrapConnectionInfo(
                          NetworkRemove(c, c.bootstrap_connection_id)), outcome)
                 ELSE NetworkBootstrap(c, outcome))

\* (a DoJoin that goes on to FindClosestNode whatever DoBootstrap returned)
DoJoinIgnoresFailure(s, outcome) ==
  LET b == DoBootstrap(s, outcome)
  IN NotifyNetworkStatus(FindClosestNode(b, "ok", 0), b.ev.ret)

DoJoin(s, outcome) ==
  LET b == DoBootstrap(s, outcome)
      return_value == b.ev.ret
  IN IF kSuccess # return_value THEN NotifyNetworkStatus(b, return_value)
     ELSE IF b.kAnonymousNode THEN NotifyNetworkStatus(b, return_value)
     ELSE NotifyNetworkStatus(FindClosestNode(b, "ok", 0), return_value)

DoReBootstrap(s, error_code, outcome) ==
  IF error_code = "aborted" THEN s
  ELSE LET c == Unlock(Lock(s))
       IN IF ~c.running THEN c
          ELSE DoJoin(c, outcome)

(***************************************************************************)
(* Routing::Impl::Join, ConnectFunctors, BootstrapFromTheseEndpoints       *)
(***************************************************************************)
ConnectFunctors(s) == [s EXCEPT !.functors_network_status = TRUE]

\* for (uint16_t i = 0; i < routing_table_.Size(); ++i) drop the closest node
RECURSIVE RemoveLoop(_, _)
RemoveLoop(s, i) ==
  IF i < Size(s)
  THEN LET remove_node == GetClosestNode(s, kNodeId)
       IN RemoveLoop(DropNode(NetworkRemove(s, remove_node.connection_id),
                              remove_node.node_id, TRUE),
                     i + 1)
  ELSE s

BootstrapFromTheseEndpoints(s, outcome) ==
  IF Size(s) > 0
  THEN LET r == RemoveLoop(s, 0)
       IN DoJoin(NotifyNetworkStatus(r, Size(r)), outcome)
  ELSE DoJoin(s, outcome)

Join(s, peer_endpoints_empty, outcome) ==
  IF ~peer_endpoints_empty
  THEN BootstrapFromTheseEndpoints(ConnectFunctors(s), outcome)
  ELSE DoJoin(ConnectFunctors(s), outcome)

(***************************************************************************)
(* Routing::Impl::ZeroStateJoin.  outcome is what network_.Bootstrap       *)
(* answers, endpoint_result what GetAvailableEndpoint answers, add_result  *)
(* what network_.Add answers; validated is whether the peer gets into the  *)
(* routing table (ValidateAndAddToRoutingTable, from the design, section   *)
(* 4.3) before the poll gives up.                                          *)
(***************************************************************************)
EndpointResults == {kSuccess, kBootstrapConnectionAlreadyExists, kTransportError}
AddResults == {kSuccess, kTransportError}

ValidateAndAddToRoutingTable(s, peer_info, validated) ==
  IF validated THEN AddNode(s, peer_info) ELSE s

ZeroStateJoin(s, peer_info, outcome, endpoint_result, add_result, validated) ==
  LET b == NetworkBootstrap(ConnectFunctors(s), outcome)
  IN IF b.ev.ret # kSuccess THEN b
     ELSE IF endpoint_result # kBootstrapConnectionAlreadyExists
     THEN [b EXCEPT !.ev.ret = endpoint_result]
     ELSE IF add_result # kSuccess
     THEN [b EXCEPT !.ev.ret = add_result]
     ELSE LET v == ValidateAndAddToRoutingTable(b, peer_info, validated)
          IN IF Size(v) # 0
             THEN LET l == Lock(v)
                  IN Unlock(IF ~l.running
                            THEN [l EXCEPT !.ev.ret = kNetworkShuttingDown]
                            ELSE [Arm(l, "recovery_timer", find_node_interval,
                                      Handler("RecoveryWait", 0, FALSE))
                                    EXCEPT !.ev.ret = kSuccess])
             ELSE [v EXCEPT !.ev.ret = kNotJoined]

(***************************************************************************)
(* Routing::Impl::OnConnectionLost, DoOnConnectionLost                     *)
(***************************************************************************)
OnConnectionLost(s, lost_connection_id) ==
  LET l == Lock(s)
  IN Unlock(IF l.running
            THEN Post(l, Handler("DoOnConnectionLost", lost_connection_id, FALSE))
            ELSE l)

LostCloseNode(s, lost_connection_id) ==
  /\ ~IsZero(GetNodeInfo(s, lost_connection_id).node_id)
  /\ IsThisNodeInRange(s, GetNodeInfo(s, lost_connection_id).node_id, closest_nodes_size)

ScheduleRecovery(s, resend) ==
  IF resend
  THEN LET l == Lock(s)
       IN Unlock(IF ~l.running THEN l
                 ELSE Arm(l, "recovery_timer", recovery_time_lag,
                          Handler("RecoveryWait", 0, TRUE)))
  ELSE s

\* (a node that schedules recovery whether anonymous or not)
LostBootstrapConnectionRecovers(c) == ScheduleRecovery(c, Size(c) = 0)

\* after clear_bootstrap_connection_info: the anonymous session has ended;
\* any other node with an empty table will re-bootstrap
LostBootstrapConnection(c) ==
  IF c.kAnonymousNode
  THEN NotifyNetworkStatus(c, kAnonymousSessionEnded)
  ELSE ScheduleRecovery(c, Size(c) = 0)

DoOnConnectionLost(s, lost_connection_id) ==
  LET c == Unlock(Lock(s))
  IN IF ~c.running THEN c
     ELSE
       LET resend == LostCloseNode(c, lost_connection_id)
           dropped_node == Dropped(c, lost_connection_id)
           d == DropNode(c, lost_connection_id, TRUE)
       IN IF ~IsZero(dropped_node.node_id) THEN ScheduleRecovery(d, resend)
          ELSE IF ~IsZero(d.bootstrap_connection_id)
                  /\ lost_connection_id = d.bootstrap_connection_id
          THEN LET u == Unlock(Lock(d))
               IN IF ~c.running THEN u
                  ELSE LostBootstrapConnection(ClearBootstrapConnectionInfo(u))
          ELSE d

(***************************************************************************)
(* Routing::Impl::DoOnMessageReceived, and MessageHandler::HandleMessage   *)
(* (from the design, section 4.3, receive contract): a response goes to    *)
(* the pending table, a request for this node to the host, a connect       *)
(* success admits its peer to the routing table.                           *)
(***************************************************************************)
HandleMessage(s, pb_message) ==
  IF pb_message.type = "kNodeLevel" /\ ~pb_message.request
  THEN AddResponse(s, pb_message.id)
  ELSE IF pb_message.type = "kNodeLevel"
  THEN Emit(s, "received", pb_message)
  ELSE IF pb_message.type = "kConnectSuccess"
  THEN AddNode(s, NodeInfo(pb_message.source_id, pb_message.connection_id))
  ELSE s

\* protobuf::Message::ParseFromString succeeds
Parses(message) == message.type # "unparsed"

\* (a handler that hands the message to HandleMessage twice)
DoOnMessageReceivedTwice(s, message) ==
  IF Parses(message) THEN HandleMessage(HandleMessage(s, message), message) ELSE s

DoOnMessageReceived(s, message) ==
  IF Parses(message) THEN HandleMessage(s, message) ELSE s

\* what the transport may deliver: a response to a request of this node, or
\* the completion of a connect handshake with a peer
ResponseMsg(id) ==
  [NoMsg EXCEPT !.type = "kNodeLevel", !.destination_id = kNodeId,
                !.has_id = TRUE, !.id = id, !.direct = TRUE, !.replication = 1,
                !.source_id = 2]

\* a string that is no serialised envelope
Unparsed == [NoMsg EXCEPT !.type = "unparsed"]

ConnectSuccessMsg(peer) ==
  [NoMsg EXCEPT !.type = "kConnectSuccess", !.destination_id = kNodeId,
                !.source_id = peer.node_id, !.connection_id = peer.connection_id,
                !.direct = TRUE, !.replication = 1]

(***************************************************************************)
(* The state machine.                                                      *)
(***************************************************************************)
\* Impl::Impl: a server node has valid keys; an anonymous node is a client
\* no message of the kind (a message at hand is a sequence of one)
NoMessage == <<>>

Init ==
  /\ originator = NoMessage
  /\ response = NoMessage
  /\ running = TRUE
  /\ functors_network_status = FALSE
  /\ kAnonymousNode \in BOOLEAN
  /\ client_mode \in BOOLEAN
  /\ (client_mode \/ ~kAnonymousNode)
  /\ routing_table = {}
  /\ bootstrap_connection_id = ZeroId
  /\ this_node_relay_connection_id = ZeroId
  /\ attached = FALSE
  /\ setup_timer = <<>>
  /\ recovery_timer = <<>>
  /\ re_bootstrap_timer = <<>>
  /\ queue = <<>>
  /\ in_flight = <<>>
  /\ task_id \in FirstTaskIds
  /\ tasks = <<>>
  /\ ended = FALSE
  /\ ev = NoEffects

WithinBounds(s) ==
  /\ Len(s.queue) <= MaxQueue
  /\ Len(s.in_flight) <= MaxInFlight
  /\ Cardinality(DOMAIN s.tasks) <= MaxTasks

Commit(s) ==
  /\ WithinBounds(s)
  /\ running' = s.running
  /\ functors_network_status' = s.functors_network_status
  /\ kAnonymousNode' = s.kAnonymousNode
  /\ client_mode' = s.client_mode
  /\ routing_table' = s.routing_table
  /\ bootstrap_connection_id' = s.bootstrap_connection_id
  /\ this_node_relay_connection_id' = s.this_node_relay_connection_id
  /\ attached' = s.attached
  /\ setup_timer' = s.setup_timer
  /\ recovery_timer' = s.recovery_timer
  /\ re_bootstrap_timer' = s.re_bootstrap_timer
  /\ queue' = s.queue
  /\ in_flight' = s.in_flight
  /\ task_id' = s.task_id
  /\ tasks' = s.tasks
  /\ ended' = s.ended
  /\ ev' = s.ev
  /\ UNCHANGED <<originator, response>>

SendArgs(destination_id, data_size, response_functor, direct) ==
  [destination_id |-> destination_id, data_size |-> data_size,
   response_functor |-> response_functor, direct |-> direct]

\* the calls of Send the host makes: every valid combination of destination
\* (this node, another), functor and direct at the largest data size, the
\* smallest data size, and each kind of invalid input with and without functor
SendCalls ==
  {SendArgs(d, max_data_size, f, g) : d \in {kNodeId, 3}, f \in BOOLEAN, g \in BOOLEAN}
  \cup {SendArgs(3, 1, TRUE, TRUE)}
  \cup {SendArgs(ZeroId, 1, f, TRUE) : f \in BOOLEAN}
  \cup {SendArgs(3, 0, TRUE, FALSE), SendArgs(3, max_data_size + 1, TRUE, TRUE)}

ConnectionIds == {2, 3, 5}

\* the targets a range is asked for: this node, peers and other addresses
Targets == 0..8
Timers == {"setup_timer", "recovery_timer", "re_bootstrap_timer"}

\* the host calls Join
HostJoin ==
  /\ running
  /\ \E peer_endpoints_empty \in BOOLEAN, outcome \in BootstrapOutcomes :
       Commit(Join([Begin("Join") EXCEPT !.ev.b = ~peer_endpoints_empty],
                   peer_endpoints_empty, outcome))

\* the host's first call of Join
HostFirstJoin == ~functors_network_status /\ HostJoin

\* the host's first call is ZeroStateJoin, on a server node, with the peer
\* the transport bootstraps with
HostZeroStateJoin ==
  /\ ~attached
  /\ ~client_mode /\ ~kAnonymousNode
  /\ \E peer_info \in Peers :
       \E outcome \in {[code |-> kSuccess, peer |-> peer_info.node_id],
                       [code |-> kTransportError, peer |-> ZeroId]},
          endpoint_result \in EndpointResults,
          add_result \in AddResults,
          validated \in BOOLEAN :
         Commit(ZeroStateJoin(Begin("ZeroStateJoin"), peer_info, outcome,
                              endpoint_result, add_result, validated))

\* the host calls Send
HostSend ==
  /\ running
  /\ \E args \in SendCalls :
       Commit(Send(BeginCall("Send", args), args.destination_id, args.data_size,
                   args.response_functor, args.direct))

\* the host calls Send with this node as the destination and no functor
HostSendsToSelf ==
  /\ running
  /\ \E direct \in BOOLEAN :
       LET args == SendArgs(kNodeId, max_data_size, FALSE, direct)
       IN Commit(Send(BeginCall("Send", args), args.destination_id, args.data_size,
                      args.response_functor, args.direct))

\* the transport completes a relay send
TransportMessageSent ==
  \E i \in 1..Len(in_flight), result \in {kSuccess, kTransportError} :
    Commit(MessageSent(Begin("MessageSent"), i, result))

\* the transport delivers a response to one of this node's requests, or a
\* string that does not parse
TransportDeliversResponse ==
  /\ attached
  /\ \E message \in {ResponseMsg(id) : id \in DOMAIN tasks} \cup {Unparsed} :
       Commit(OnMessageReceived(Begin("OnMessageReceived"), message))

\* the transport delivers the completion of a connect handshake
TransportDeliversConnect ==
  /\ attached
  /\ \E peer \in Peers :
       Commit(OnMessageReceived(Begin("OnMessageReceived"), ConnectSuccessMsg(peer)))

\* the transport delivers the completion of the handshake with the closest peer
TransportDeliversFirstConnect ==
  /\ attached
  /\ Commit(OnMessageReceived(Begin("OnMessageReceived"),
                              ConnectSuccessMsg(GetClosestNode([routing_table |-> Peers], kNodeId))))

\* the peers of a network large enough to fill the routing table
ManyPeers == {NodeInfo(n, n) : n \in {2, 3, 4, 6, 7, 8}}

\* the transport delivers the completion of a connect handshake with one of
\* them, or reports the connection to one of them lost
TransportDeliversConnectOf(peers) ==
  /\ attached
  /\ \E peer \in peers :
       Commit(OnMessageReceived(Begin("OnMessageReceived"), ConnectSuccessMsg(peer)))

TransportOnConnectionLostOf(peers) ==
  /\ attached
  /\ \E peer \in peers :
       Commit(OnConnectionLost(Begin("OnConnectionLost"), peer.connection_id))

\* the routing table removes one of its entries (an eviction or a removal by
\* the operator) and fires its callbacks: remove_node with the entry and the
\* flag of the removal, then network_status with the size
RoutingTableRemoves ==
  /\ attached
  /\ \E node \in routing_table, internal_rudp_only \in BOOLEAN :
       Commit(DropNode([Begin("DropNode") EXCEPT !.ev.n = node.node_id,
                                                 !.ev.b = internal_rudp_only],
                       node.node_id, internal_rudp_only))

\* the remove_node functor called with an entry without a node id or
\* without a connection id
RemoveNodeFunctor ==
  /\ attached
  /\ \E node \in {ZeroNode, NodeInfo(ZeroId, 2), NodeInfo(2, ZeroId)},
        internal_rudp_only \in BOOLEAN :
       Commit(RemoveNode([Begin("RemoveNode") EXCEPT !.ev.n = node.node_id,
                                                   !.ev.b = internal_rudp_only],
                         node, internal_rudp_only))

\* the transport reports a lost connection
TransportOnConnectionLost ==
  /\ attached
  /\ \E lost_connection_id \in ConnectionIds :
       Commit(OnConnectionLost(Begin("OnConnectionLost"), lost_connection_id))

\* the transport reports the bootstrap connection lost
TransportLosesBootstrap ==
  /\ attached
  /\ ~IsZero(bootstrap_connection_id)
  /\ Commit(OnConnectionLost(Begin("OnConnectionLost"), bootstrap_connection_id))

\* deadline timer t expires: its wait's handler is queued with no error
Expires(t) ==
  /\ Cur[t] # <<>>
  /\ Commit([Begin("TimerExpires") EXCEPT ![t] = <<>>,
                                          !.queue = @ \o Cur[t]])

TimerExpires == \E t \in Timers : Expires(t)

\* The same timers with the clock: a second passes for every pending wait,
\* none of which is due ...
Waiting(s, t) == [i \in 1..Len(s[t]) |-> [s[t][i] EXCEPT !.left = @ - 1]]

SecondPasses ==
  /\ \E t \in Timers : Cur[t] # <<>>
  /\ \A t \in Timers : \A i \in 1..Len(Cur[t]) : Cur[t][i].left > 0
  /\ Commit([Begin("SecondPasses") EXCEPT
               !.setup_timer = Waiting(Cur, "setup_timer"),
               !.recovery_timer = Waiting(Cur, "recovery_timer"),
               !.re_bootstrap_timer = Waiting(Cur, "re_bootstrap_timer")])

\* ... and a wait expires when its time has run out
IsDue(t) == Cur[t] # <<>> /\ Cur[t][1].left = 0

ExpiresWhenDue == \E t \in Timers : IsDue(t) /\ Expires(t)

\* the deadline of the pending response task id elapses
Deadline(id) ==
  /\ IsPending(Cur, id)
  /\ Commit(TaskTimeout(Begin("TaskDeadline"), id))

TaskDeadline == \E id \in DOMAIN tasks : Deadline(id)

\* the state with handler i taken out of the queue
Take(s, i) ==
  [s EXCEPT !.queue = [j \in 1..(Len(@) - 1) |-> IF j < i THEN @[j] ELSE @[j + 1]]]

\* the error code a wait's lambda tests before it calls on
Tested(h) == IF h.outer = "own" THEN h.ec ELSE h.outer

RunHandler(s, h, outcome) ==
  CASE h.type = "DoOnMessageReceived" -> DoOnMessageReceived(s, h.msg)
    [] h.type = "DoOnConnectionLost" -> DoOnConnectionLost(s, h.n)
    [] h.type = "RelaySendResult" -> RelaySendResult(s, h)
    [] h.type = "SetupWait" ->
         IF h.ec # "aborted" THEN FindClosestNode(s, h.ec, h.n) ELSE s
    [] h.type = "RecoveryWait" ->
         IF Tested(h) # "aborted" THEN ReSendFindNodeRequest(s, h.ec, h.b) ELSE s
    [] h.type = "ReBootstrapWait" ->
         IF h.ec # "aborted" THEN DoReBootstrap(s, h.ec, outcome) ELSE s

\* a worker thread runs a handler: with pool_size threads, any of the first
\* pool_size handlers of the queue may be the next to take effect
WorkerRuns ==
  \E i \in 1..pool_size :
    /\ i <= Len(queue)
    /\ \E outcome \in BootstrapOutcomes :
         /\ queue[i].type # "ReBootstrapWait" => outcome.code # kSuccess
         /\ Commit(RunHandler(Take(BeginHandler(queue[i]), i), queue[i], outcome))

\* Impl::~Impl
Shutdown ==
  /\ running
  /\ Commit(Unlock([Lock(Begin("Shutdown")) EXCEPT !.running = FALSE]))

Next ==
  \/ HostJoin
  \/ HostSend
  \/ TransportMessageSent
  \/ TransportDeliversResponse
  \/ TransportDeliversConnect
  \/ TransportOnConnectionLost
  \/ TimerExpires
  \/ TaskDeadline
  \/ WorkerRuns
  \/ Shutdown

Spec == Init /\ [][Next]_vars

\* the asio queue has drained: no posted handler is waiting
Drained == queue = <<>>

\* What Send does in each state of the node.  The host and the transport act
\* when the queue has drained; no setup, recovery or re-bootstrap wait
\* elapses and no response arrives.
NextSend ==
  \/ HostFirstJoin
  \/ Drained /\ HostSend
  \/ Drained /\ TransportMessageSent
  \/ Drained /\ TransportDeliversFirstConnect
  \/ WorkerRuns

SpecSend == Init /\ [][NextSend]_vars

\* The partially joined or anonymous node, whose routing table stays empty:
\* the relay path of Send and the pending-response table.  The host and the
\* transport act when the queue has drained; a deadline elapses at any time.
NextRelay ==
  \/ HostFirstJoin
  \/ Drained /\ HostSend
  \/ Drained /\ TransportMessageSent
  \/ Drained /\ TransportDeliversResponse
  \/ Drained /\ TransportLosesBootstrap
  \/ TaskDeadline
  \/ WorkerRuns

SpecRelay == Init /\ [][NextRelay]_vars

\* a server node whose first task gets id 0
InitServer == Init /\ ~client_mode /\ task_id = ZeroId

\* the ids AddTask returns to that node within MaxTasks additions
TaskIds == 0..(MaxTasks - 1)

\* The pending-response table of a partially joined server node.  Every task
\* has a deadline of its own, set when it is added, which elapses whatever
\* else the node does; the worker threads run while the queue holds a
\* handler.
SpecRelayFair ==
  /\ InitServer
  /\ [][NextRelay]_vars
  /\ \A id \in TaskIds : WF_vars(Deadline(id))
  /\ WF_vars(WorkerRuns)

\* The node while the host sends nothing: the join and recovery state
\* machine.  The host, the transport and the deadline timers act when the
\* queue has drained; the node is destroyed at any time.
NextJoin ==
  \/ Drained /\ HostJoin
  \/ Drained /\ TransportDeliversConnect
  \/ Drained /\ TransportOnConnectionLost
  \/ Drained /\ TimerExpires
  \/ WorkerRuns
  \/ Shutdown

SpecJoin == Init /\ [][NextJoin]_vars

\* The transport's callbacks arriving while handlers wait in the queue: the
\* order in which the two worker threads let posted handlers take effect.
NextOrder ==
  \/ HostFirstJoin
  \/ TransportDeliversConnect
  \/ TransportOnConnectionLost
  \/ WorkerRuns

SpecOrder == Init /\ [][NextOrder]_vars

\* The genesis of a two-node network: ZeroStateJoin and what follows it.
NextZero ==
  \/ HostZeroStateJoin
  \/ Drained /\ TransportDeliversConnect
  \/ Drained /\ TransportOnConnectionLost
  \/ Drained /\ TimerExpires
  \/ WorkerRuns
  \/ Shutdown

SpecZero == Init /\ [][NextZero]_vars

\* The node that fills its routing table and loses entries again: what a
\* lost connection schedules and what the recovery wait sends.
NextRecovery ==
  \/ HostFirstJoin
  \/ Drained /\ TransportDeliversConnectOf(ManyPeers)
  \/ Drained /\ TransportOnConnectionLostOf(ManyPeers)
  \/ Drained /\ TimerExpires
  \/ WorkerRuns

SpecRecovery == Init /\ [][NextRecovery]_vars

\* The routing table under every sequence of admissions and lost
\* connections, with peers whose connection id is their own address, the
\* address of another peer, or neither.
TablePeers == {NodeInfo(n, c) : n \in {2, 3, 4}, c \in {2, 3, 4}}

NextTable ==
  \/ HostFirstJoin
  \/ Drained /\ TransportDeliversConnectOf(TablePeers)
  \/ Drained /\ TransportOnConnectionLostOf(TablePeers)
  \/ Drained /\ TimerExpires
  \/ WorkerRuns

SpecTable == InitServer /\ [][NextTable]_vars

\* The routing table's removals and what the remove_node functor does with
\* them, on a node that fills its table.
NextRemove ==
  \/ HostFirstJoin
  \/ Drained /\ TransportDeliversConnectOf(ManyPeers)
  \/ Drained /\ RoutingTableRemoves
  \/ Drained /\ RemoveNodeFunctor
  \/ Drained /\ TimerExpires
  \/ WorkerRuns

SpecRemove == InitServer /\ [][NextRemove]_vars

(***************************************************************************)
(* FindGroup and FindGroupResponse (find_group_response.h).  An address is *)
(* a tagged value: the tag says whether it names a source or a              *)
(* destination, data is the address itself.                                 *)
(***************************************************************************)
MaxAddress == 4
MaxMessageId == 3

SourceAddress(data) == [tag |-> "SourceAddress", data |-> data]
DestinationAddress(data) == [tag |-> "DestinationAddress", data |-> data]

\* MessageHeader(destination, source, message_id) (from the design, section
\* 4.3, the message envelope): the header holds what it is built from
MessageHeader(destination, source, message_id) ==
  [destination |-> destination, source |-> source, message_id |-> message_id]

\* the FindGroup requests: every header
FindGroups ==
  {[header |-> MessageHeader(DestinationAddress(d), SourceAddress(a), id)] :
     d \in 0..MaxAddress, a \in 0..MaxAddress, id \in 0..MaxMessageId}

\* (a response that keeps the header of the request)
FindGroupResponseKeepsHeader(find_group) == [header |-> find_group.header]

\* FindGroupResponse(FindGroup originator)
FindGroupResponse(find_group) ==
  [header |-> MessageHeader(DestinationAddress(find_group.header.source.data),
                            SourceAddress(find_group.header.destination.data),
                            find_group.header.message_id)]

\* a FindGroup request arrives
ReceivesFindGroup ==
  /\ \E find_group \in FindGroups :
       /\ <<find_group>> # originator
       /\ originator' = <<find_group>>
  /\ response' = NoMessage
  /\ UNCHANGED <<running, functors_network_status, kAnonymousNode, client_mode,
                 routing_table, bootstrap_connection_id,
                 this_node_relay_connection_id, attached, setup_timer,
                 recovery_timer, re_bootstrap_timer, queue, in_flight, task_id,
                 tasks, ended, ev>>

\* the response to the request at hand is built
BuildsFindGroupResponse ==
  /\ originator # NoMessage
  /\ response = NoMessage
  /\ response' = <<FindGroupResponse(originator[1])>>
  /\ UNCHANGED <<running, functors_network_status, kAnonymousNode, client_mode,
                 routing_table, bootstrap_connection_id,
                 this_node_relay_connection_id, attached, setup_timer,
                 recovery_timer, re_bootstrap_timer, queue, in_flight, task_id,
                 tasks, ended, ev, originator>>

InitFindGroup ==
  /\ originator \in {<<find_group>> : find_group \in FindGroups}
  /\ response = NoMessage
  /\ running = TRUE
  /\ functors_network_status = FALSE
  /\ kAnonymousNode = FALSE
  /\ client_mode = FALSE
  /\ routing_table = {}
  /\ bootstrap_connection_id = ZeroId
  /\ this_node_relay_connection_id = ZeroId
  /\ attached = FALSE
  /\ setup_timer = <<>>
  /\ recovery_timer = <<>>
  /\ re_bootstrap_timer = <<>>
  /\ queue = <<>>
  /\ in_flight = <<>>
  /\ task_id = ZeroId
  /\ tasks = <<>>
  /\ ended = FALSE
  /\ ev = NoEffects

NextFindGroup ==
  \/ ReceivesFindGroup
  \/ BuildsFindGroupResponse

\* FindGroupResponse applied to every FindGroup header.
SpecFindGroup == InitFindGroup /\ [][NextFindGroup]_vars

\* Every path on which a thread takes running_mutex_: the host's Join,
\* ZeroStateJoin and Send, the transport's callbacks, the routing table's
\* removals, the timers' waits and the destructor.
NextLocks ==
  \/ Drained /\ HostJoin
  \/ HostZeroStateJoin
  \/ Drained /\ HostSendsToSelf
  \/ Drained /\ TransportMessageSent
  \/ Drained /\ TransportDeliversConnect
  \/ Drained /\ TransportOnConnectionLost
  \/ Drained /\ RoutingTableRemoves
  \/ Drained /\ TimerExpires
  \/ WorkerRuns
  \/ Shutdown

SpecLocks == InitServer /\ [][NextLocks]_vars

\* the host sends a request to a group: to its own address, to a peer's or to
\* an address no node has
HostGroupSend ==
  /\ running
  /\ \E destination_id \in Targets, response_functor \in BOOLEAN :
       LET args == SendArgs(destination_id, 1, response_functor, FALSE)
       IN Commit(Send(BeginCall("Send", args), args.destination_id, args.data_size,
                      args.response_functor, args.direct))

\* Group sends on the node of a fully joined network of up to seven nodes.
NextGroup ==
  \/ HostFirstJoin
  \/ Drained /\ TransportDeliversConnectOf(ManyPeers)
  \/ Drained /\ HostGroupSend
  \/ WorkerRuns

SpecGroup == InitServer /\ [][NextGroup]_vars

\* a caller asks the routing table whether this node is in range of target
CallsIsThisNodeInRange ==
  \E target \in Targets, n \in 1..MaxRange :
    Commit([Begin("IsThisNodeInRange") EXCEPT
              !.ev.n = target, !.ev.ret = n,
              !.ev.b = IsThisNodeInRange(Cur, target, n)])

\* The range predicate on every table the node comes to hold: it joins,
\* admits peers and loses them, and the predicate is evaluated in between.
NextRange ==
  \/ HostFirstJoin
  \/ Drained /\ TransportDeliversConnectOf(ManyPeers)
  \/ Drained /\ TransportOnConnectionLostOf(ManyPeers)
  \/ Drained /\ CallsIsThisNodeInRange
  \/ WorkerRuns

SpecRange == InitServer /\ [][NextRange]_vars

\* The server node that joins and finds no close node, on the clock: the
\* handlers take no time, a pending wait expires when it is due, and the
\* bootstrap connection may be lost.  Time goes on, due waits expire and the
\* worker threads run.
NextTimed ==
  \/ HostFirstJoin
  \/ Drained /\ TransportLosesBootstrap
  \/ Drained /\ SecondPasses
  \/ Drained /\ ExpiresWhenDue
  \/ WorkerRuns

SpecTimedFair ==
  /\ InitServer
  /\ [][NextTimed]_vars
  /\ WF_vars(Drained /\ SecondPasses)
  /\ WF_vars(Drained /\ ExpiresWhenDue)
  /\ WF_vars(WorkerRuns)

\* The server node that joins, admits peers and loses them, while it keeps
\* running.  Every wait elapses in the end and the worker threads run while
\* the queue holds a handler.
NextReboot ==
  \/ HostFirstJoin
  \/ Drained /\ TransportDeliversConnect
  \/ Drained /\ TransportOnConnectionLost
  \/ Drained /\ TimerExpires
  \/ WorkerRuns

SpecRebootFair ==
  /\ InitServer
  /\ [][NextReboot]_vars
  /\ \A t \in Timers : SF_vars(Drained /\ Expires(t))
  /\ WF_vars(WorkerRuns)

(***************************************************************************)
(* Properties of Send.                                                     *)
(***************************************************************************)
\* what the last call of Send was given
InvalidSend ==
  /\ ev.op = "Send"
  /\ \/ ev.args.destination_id = ZeroId
     \/ ev.args.data_size = 0
     \/ ev.args.data_size > max_data_size

ValidSend == ev.op = "Send" /\ ~InvalidSend

\* the envelopes the last step gave to the transport or to the inbound path
Envelopes ==
  [i \in 1..Len(ev.direct) |-> ev.direct[i].msg] \o ev.closest \o ev.local

\* C1: Send with a zero destination, an empty payload or a payload larger
\* than MaxDataSize invokes the supplied callback exactly once with an empty
\* list, registers no task and emits no envelope (relay, closest node or
\* local inbound path); without a callback it does nothing.
C1_InvalidSendOnlyCallsBack ==
  InvalidSend =>
    /\ ev.callbacks = IF ev.args.response_functor
                      THEN <<[id |-> -1, len |-> 0]>>
                      ELSE <<>>
    /\ ev.added = <<>>
    /\ Envelopes = <<>>
    /\ ev.cancels = <<>>
    /\ ev.status = <<>>
    /\ ev.armed = {} /\ ev.boot = 0 /\ ev.removed = {} /\ ev.received = <<>>

C1_Witness ==
  /\ InvalidSend
  /\ ev.args.data_size > max_data_size
  /\ ev.args.response_functor
  /\ Len(ev.callbacks) = 1

\* C2: for every valid Send the envelope's replication is 1 when direct and
\* the group size otherwise; a task is registered iff a callback is supplied,
\* and it expects as many responses as the envelope's replication.
C2_ReplicationAndTask ==
  ValidSend =>
    /\ Len(Envelopes) = 1
    /\ Envelopes[1].replication = IF ev.args.direct THEN 1 ELSE node_group_size
    /\ (ev.added # <<>>) <=> ev.args.response_functor
    /\ ev.args.response_functor =>
         /\ Len(ev.added) = 1
         /\ Envelopes[1].has_id /\ Envelopes[1].id = ev.added[1]
         /\ ev.added[1] \in DOMAIN tasks
         /\ tasks[ev.added[1]].pending
         /\ tasks[ev.added[1]].expected = Envelopes[1].replication
    /\ ~ev.args.response_functor => ~Envelopes[1].has_id

C2_Witness ==
  /\ ValidSend
  /\ ~ev.args.direct
  /\ ev.args.response_functor
  /\ Len(ev.added) = 1
  /\ tasks[ev.added[1]].expected = node_group_size

\* C3: a valid Send from an anonymous node, or from a node whose routing
\* table is empty, hands exactly one envelope to the transport, addressed to
\* the bootstrap connection id, with relay_id = this node's id,
\* relay_connection_id = this node's relay connection id and no source_id;
\* nothing goes to the closest node or to the local inbound path, even when
\* the destination is this node.
C3_RelayWhenAnonymousOrEmpty ==
  (ValidSend /\ (kAnonymousNode \/ routing_table = {})) =>
    /\ Len(ev.direct) = 1
    /\ ev.direct[1].to = bootstrap_connection_id
    /\ ev.direct[1].msg.relay
    /\ ev.direct[1].msg.relay_id = kNodeId
    /\ ev.direct[1].msg.relay_connection_id = this_node_relay_connection_id
    /\ ev.direct[1].msg.source_id = ZeroId
    /\ ev.direct[1].msg.destination_id = ev.args.destination_id
    /\ ev.closest = <<>>
    /\ ev.local = <<>>

C3_Witness ==
  /\ ValidSend
  /\ ~kAnonymousNode /\ ~client_mode /\ routing_table = {}
  /\ ev.args.destination_id = kNodeId
  /\ Len(ev.direct) = 1
  /\ ev.direct[1].to # ZeroId

\* C7: a valid Send from a non-anonymous node with a non-empty routing table
\* goes to the node's own inbound path, and not to the transport, when the
\* destination is this node and the node is not in client mode; in every
\* other case it goes to the closest node and not to the inbound path.  In
\* both cases source_id is this node's id.
C7_LocalOrClosest ==
  (ValidSend /\ ~kAnonymousNode /\ routing_table # {}) =>
    /\ ev.direct = <<>>
    /\ Len(Envelopes) = 1
    /\ Envelopes[1].source_id = kNodeId
    /\ ~Envelopes[1].relay
    /\ Envelopes[1].destination_id = ev.args.destination_id
    /\ IF ev.args.destination_id = kNodeId /\ ~client_mode
       THEN /\ Len(ev.local) = 1 /\ ev.closest = <<>>
            /\ queue # <<>>
            /\ queue[Len(queue)].type = "DoOnMessageReceived"
            /\ queue[Len(queue)].msg = ev.local[1]
       ELSE Len(ev.closest) = 1 /\ ev.local = <<>>

C7_Witness ==
  /\ ValidSend /\ ~kAnonymousNode /\ routing_table # {}
  /\ ev.args.destination_id = kNodeId
  /\ client_mode
  /\ Len(ev.closest) = 1

(***************************************************************************)
(* Properties of the relay path and of the session-ended codes.            *)
(***************************************************************************)
\* the code a failed relay send reports on this node
SessionEndedCode ==
  IF kAnonymousNode THEN kAnonymousSessionEnded ELSE kPartialJoinSessionEnded

\* C4: when the transport reports failure for a relay send, the task that
\* Send registered, and no other, is cancelled, and network-status gets
\* AnonymousSessionEnded on an anonymous node and PartialJoinSessionEnded
\* otherwise; when it reports success no task is cancelled and no status is
\* notified.  (ev.n is the id the handler reads from the envelope, ev.b
\* whether that Send registered a task.)
C4_FailureCancelsOnlyItsTask ==
  ev.op = "RelaySendResult" =>
    IF ev.ec = "failed"
    THEN /\ \A i \in 1..Len(ev.callbacks) : ev.b /\ ev.callbacks[i].id = ev.n
         /\ ev.b => ~IsPending(Cur, ev.n)
         /\ functors_network_status => ev.status = <<SessionEndedCode>>
    ELSE ev.cancels = <<>> /\ ev.callbacks = <<>> /\ ev.status = <<>>

\* a failed relay send whose own task is cancelled
C4_Witness ==
  /\ ev.op = "RelaySendResult" /\ ev.ec = "failed" /\ ev.b
  /\ ev.callbacks = <<[id |-> ev.n, len |-> 0]>>
  /\ ev.status = <<SessionEndedCode>>

\* C5: the network-status callback receives a session-ended code
\* (AnonymousSessionEnded or PartialJoinSessionEnded) at most once per node:
\* once it has received one, no later step hands it another.
C5_SessionEndedReportedOnce ==
  [][ended => \A i \in 1..Len(ev'.status) : ev'.status[i] \notin SessionEnded]_vars

\* C6: after a session-ended code has been reported, no call of Send hands
\* an envelope to the transport or registers a pending task.
C6_NoSendAfterSessionEnded ==
  (ev.op = "Send" /\ ended) =>
    /\ ev.direct = <<>>
    /\ ev.closest = <<>>
    /\ ev.added = <<>>

(***************************************************************************)
(* Properties of the pending-response table.                               *)
(***************************************************************************)
\* a response envelope
IsResponse(message) == message.type = "kNodeLevel" /\ ~message.request

\* the task was finalised and its callback invoked once
Answered(id) ==
  id \in DOMAIN tasks /\ ~tasks[id].pending /\ tasks[id].calls = 1

\* C8: the callback of every task registered with AddTask is invoked exactly
\* once, whether the task ends by its last response, by its deadline or by
\* CancelTask after a failed relay send: a task is pending exactly while its
\* callback has not been invoked, the callback is never invoked twice, and
\* every pending task is finalised in the end.
C8_CallbackExactlyOnce ==
  /\ [](\A id \in DOMAIN tasks :
          /\ tasks[id].calls <= 1
          /\ tasks[id].pending <=> tasks[id].calls = 0)
  /\ \A id \in TaskIds : IsPending(Cur, id) ~> Answered(id)

\* two tasks, the second just cancelled by its failed relay send, each
\* answered once
C8_Witness ==
  /\ ev.op = "RelaySendResult" /\ ev.ec = "failed" /\ ev.b
  /\ Len(ev.callbacks) = 1
  /\ Cardinality(DOMAIN tasks) = 2
  /\ \A id \in DOMAIN tasks : tasks[id].calls = 1

\* C9: a deadline that elapses after k of the expected responses were handled
\* (k < expected) invokes the callback with exactly k responses: every
\* response handled while the task is pending counts once, the last expected
\* one finalising the task; a response handled after the task was finalised
\* changes nothing and invokes no callback.
C9_DeadlineGivesResponsesSoFar ==
  [][/\ \A id \in DOMAIN tasks :
          (ev'.op = "TaskDeadline" /\ tasks[id].pending /\ ~tasks'[id].pending) =>
            /\ tasks[id].responses < tasks[id].expected
            /\ ev'.callbacks = <<[id |-> id, len |-> tasks[id].responses]>>
     /\ (ev'.op = "DoOnMessageReceived" /\ IsResponse(ev'.msg)) =>
          LET id == ev'.msg.id
          IN IF IsPending(Cur, id)
             THEN IF tasks[id].responses + 1 < tasks[id].expected
                  THEN /\ tasks' = [tasks EXCEPT ![id].responses = @ + 1]
                       /\ ev'.callbacks = <<>>
                  ELSE /\ ~tasks'[id].pending
                       /\ ev'.callbacks = <<[id |-> id, len |-> tasks[id].expected]>>
             ELSE tasks' = tasks /\ ev'.callbacks = <<>>
    ]_vars

\* a deadline that elapses after one of two responses, the other one still
\* waiting in the queue
C9_Witness ==
  /\ ev.op = "TaskDeadline"
  /\ Len(ev.callbacks) = 1
  /\ ev.callbacks[1].len = 1
  /\ \E i \in 1..Len(queue) :
       /\ queue[i].type = "DoOnMessageReceived"
       /\ IsResponse(queue[i].msg)
       /\ queue[i].msg.id = ev.callbacks[1].id

(***************************************************************************)
(* Properties of shutdown.                                                 *)
(***************************************************************************)
\* the steps that are tasks of the worker threads
TaskOps ==
  {"SetupWait", "RecoveryWait", "ReBootstrapWait", "DoOnConnectionLost",
   "DoOnMessageReceived", "RelaySendResult"}

\* the last step gave a FindNodes request to the transport
SentFindNodes ==
  \E i \in 1..Len(Envelopes) : Envelopes[i].type = "kFindNodes"

\* C10: once running is cleared, no task that starts afterwards
\* (FindClosestNode, ReSendFindNodeRequest, DoReBootstrap, DoOnConnectionLost
\* or a posted message handler) sends a FindNodes request, calls the
\* transport's bootstrap or arms a timer.  (No task sets running, so a task
\* that ends with running cleared and did not clear it started that way.)
C10_NoWorkAfterShutdown ==
  (~running /\ ev.op \in TaskOps) =>
    /\ ~SentFindNodes
    /\ ev.boot = 0
    /\ ev.armed = {}

(***************************************************************************)
(* Properties of the order of handlers.                                    *)
(***************************************************************************)
\* the handlers posted for the transport's events
ConnectionEvents == {"DoOnMessageReceived", "DoOnConnectionLost"}

\* the connection an event handler is about: the one that was lost, or the
\* one of the peer that sent the message
ConnectionOf(h) ==
  IF h.type = "DoOnConnectionLost" THEN h.n ELSE h.msg.source_id

\* the step lets the second handler of the queue take effect while the
\* first, posted earlier for the same connection, still waits
Overtaken ==
  /\ Len(queue) >= 2
  /\ queue[1].type \in ConnectionEvents
  /\ queue[2].type \in ConnectionEvents
  /\ queue[1] # queue[2]
  /\ ConnectionOf(queue[1]) = ConnectionOf(queue[2])
  /\ ev'.op = queue[2].type /\ ev'.n = queue[2].n /\ ev'.msg = queue[2].msg
  /\ queue' # <<>> /\ queue'[1] = queue[1]

\* C11: the handlers posted for the events of one connection (a message and
\* then the loss of the connection, or two messages) take effect in the
\* order in which the transport reported the events, which is the order in
\* which they were posted.
C11_EventsInArrivalOrder == [][~Overtaken]_vars

(***************************************************************************)
(* Properties of ZeroStateJoin.                                            *)
(***************************************************************************)
\* the node is in Steady: it has a peer and its recovery wait is pending
Steady == routing_table # {} /\ recovery_timer # <<>>

\* C12: ZeroStateJoin returns Success only when the node has reached Steady
\* (a non-empty routing table and an armed recovery timer), whatever the
\* transport's bootstrap, GetAvailableEndpoint and Add answer.
C12_ZeroStateSuccessIsSteady ==
  (ev.op = "ZeroStateJoin" /\ ev.ret = kSuccess) => Steady

(***************************************************************************)
(* Properties of recovery after a lost connection.                         *)
(***************************************************************************)
\* the last step was DoOnConnectionLost on a running node and dropped an
\* entry of the routing table (every peer's connection id is its node id)
DroppedEntry == ev.op = "DoOnConnectionLost" /\ running /\ ev.removed # {}

\* the routing table before that step
TableBefore == [routing_table |-> routing_table \cup {NodeInfo(ev.n, ev.n)}]

\* the recovery wait pending is the one a lost close node schedules
RecoveryScheduled ==
  /\ "recovery_timer" \in ev.armed
  /\ recovery_timer =
       <<[Handler("RecoveryWait", 0, TRUE) EXCEPT !.lag = recovery_time_lag,
                                                  !.left = recovery_time_lag]>>

\* the last step was that wait elapsing, with entries left in the table
RecoveryElapsed ==
  ev.op = "RecoveryWait" /\ ev.ec = "ok" /\ ev.b /\ routing_table # {}

\* the last step sent one FindNodes request for num_nodes nodes to the node
\* closest to this one, and nothing else
SentFindNodesFor(num_nodes) ==
  /\ Len(ev.closest) = 1
  /\ ev.closest[1].type = "kFindNodes"
  /\ ev.closest[1].destination_id = kNodeId
  /\ ev.closest[1].num_nodes = num_nodes
  /\ ev.direct = <<>>

\* C13 (as stated): losing the closest entry of the routing table schedules,
\* whenever an entry is left, a recovery wait whose elapsing sends a
\* FindNodes request for CloseGroupSize nodes to the closest remaining node.
C13_LostClosestAsksCloseGroup ==
  /\ (DroppedEntry /\ routing_table # {}
        /\ GetClosestNode(TableBefore, kNodeId).node_id = ev.n) => RecoveryScheduled
  /\ RecoveryElapsed => SentFindNodesFor(closest_nodes_size)

\* C13 (amended): losing an entry schedules the recovery wait exactly when
\* this node was within the closest_nodes_size nodes around the entry; when
\* that wait elapses with entries left, one FindNodes request goes to the
\* closest remaining node, for CloseGroupSize nodes if more than
\* RoutingTableSizeThreshold entries are left and for MaxRTSize otherwise.
C13_LostCloseNodeAsksBySize ==
  /\ DroppedEntry =>
       (RecoveryScheduled <=> IsThisNodeInRange(TableBefore, ev.n, closest_nodes_size))
  /\ RecoveryElapsed =>
       SentFindNodesFor(IF Cardinality(routing_table) > routing_table_size_threshold
                        THEN closest_nodes_size
                        ELSE max_routing_table_size)

\* the wait elapses with more than the threshold left
C13_Witness ==
  /\ RecoveryElapsed
  /\ Cardinality(routing_table) > routing_table_size_threshold
  /\ SentFindNodesFor(closest_nodes_size)

(***************************************************************************)
(* Properties of re-bootstrap.                                             *)
(***************************************************************************)
\* the last step dropped the last entry of the routing table
TableEmptied == DroppedEntry /\ routing_table = {}

\* the find-close-node loop is over: no setup wait is pending or queued
SetupOver ==
  /\ setup_timer = <<>>
  /\ \A i \in 1..Len(queue) : queue[i].type # "SetupWait"

\* a re-bootstrap wait is pending that elapses within lag seconds of the
\* event behind the last step
ReBootstrapDueWithin(lag) ==
  /\ re_bootstrap_timer # <<>>
  /\ re_bootstrap_timer[1].type = "ReBootstrapWait"
  /\ re_bootstrap_timer[1].lag <= lag

SharedKey(p, q) == p.node_id = q.node_id \/ p.connection_id = q.connection_id

\* the last step handled a lost connection and took an entry out
LostEntry == ev.op = "DoOnConnectionLost" /\ ev.removed # {}

RangeAsked == ev.op = "IsThisNodeInRange"

GroupSent ==
  /\ ev.op = "Send"
  /\ ~ev.args.direct
  /\ ev.closest # <<>> \/ ev.local # <<>>

\* how often each node of the network processes the request of that Send
Delivered ==
  IF ev.closest # <<>>
  THEN GroupDeliveries(NetworkNodes(Cur),
                       NextHop(NetworkNodes(Cur), kNodeId, ev.closest[1].destination_id),
                       ev.closest[1], hops_to_live)
  ELSE GroupDeliveries(NetworkNodes(Cur), kNodeId, ev.local[1], hops_to_live)

AtMaxFailures ==
  /\ ev.op = "SetupWait"
  /\ ev.ec = "ok"
  /\ ev.n >= maximum_find_close_node_failures
  /\ running
  /\ routing_table = {}
  /\ "re_bootstrap_timer" \in ev.armed

\* the re-bootstrap wait expired and DoReBootstrap called the transport's
\* bootstrap
ReBootstrapped == ev.op = "ReBootstrapWait" /\ ev.ec = "ok" /\ ev.boot > 0

\* C18: when the find-close-node loop reaches MaxFindCloseNodeFailures
\* attempts with the routing table empty on a node that keeps running, the
\* re-bootstrap wait armed by ReBootstrap expires in the end and
\* DoReBootstrap calls the transport's bootstrap again.
C18_MaxFailuresLeadsToReBootstrap == AtMaxFailures ~> ReBootstrapped

\* the setup wait elapsed on a running node with the table empty, ev.n
\* FindNodes requests into this bootstrap episode: FindClosestNode sends one
\* request per run and counts it in attempts, which DoJoin starts at 0
SetupWaitElapsed ==
  /\ ev.op = "SetupWait"
  /\ ev.ec = "ok"
  /\ running
  /\ routing_table = {}

\* C19: within one bootstrap episode the node sends at most
\* MaxFindCloseNodeFailures FindNodes requests to the bootstrap peer: once
\* that many are out, a run of FindClosestNode sends no further request and
\* does not re-arm the setup timer.
C19_RetriesBounded ==
  (SetupWaitElapsed /\ ev.n >= maximum_find_close_node_failures) =>
    /\ ev.direct = <<>>
    /\ "setup_timer" \notin ev.armed

(***************************************************************************)
(* Properties of DoBootstrap.                                              *)
(***************************************************************************)
\* the last step went through DoBootstrap to the transport's bootstrap (the
\* routing table is as DoBootstrap found it: nothing after it in Join or in
\* DoReBootstrap touches the table)
Bootstrapped == ev.op \in {"Join", "ReBootstrapWait"} /\ ev.boot > 0

\* C20: DoBootstrap calls the transport's bootstrap with the routing table
\* empty only, whatever the order of the steps: a re-bootstrap wait armed
\* while the table was empty does not lead to DoBootstrap once a peer has
\* been admitted.
C20_BootstrapOnlyWhenEmpty == Bootstrapped => routing_table = {}

(***************************************************************************)
(* Properties of Join.                                                     *)
(***************************************************************************)
\* the last step was a Join with a list of endpoints (ev.b), which goes
\* through BootstrapFromTheseEndpoints; nothing after its loop touches the
\* routing table
JoinedWithEndpoints == ev.op = "Join" /\ ev.b

\* C21: when BootstrapFromTheseEndpoints reaches DoJoin the routing table
\* is empty, however many entries it held.
C21_JoinWithEndpointsEmptiesTable == JoinedWithEndpoints => routing_table = {}

(***************************************************************************)
(* Properties of the recovery loop.                                        *)
(***************************************************************************)
\* the recovery wait elapsed on a node in Steady: running, with entries in
\* the routing table and the find-close-node loop over
RecoveryFiredInSteady ==
  /\ ev.op = "RecoveryWait"
  /\ ev.ec = "ok"
  /\ running
  /\ routing_table # {}
  /\ SetupOver

\* C22: every time the recovery timer fires in Steady, one FindNodes request
\* for at most MaxRTSize nodes goes to the closest node and the recovery
\* timer is armed again for FindNodeInterval, whatever the size of the
\* routing table.
C22_RecoveryLoopStaysPeriodic ==
  RecoveryFiredInSteady =>
    /\ Len(ev.closest) = 1
    /\ ev.closest[1].type = "kFindNodes"
    /\ ev.closest[1].num_nodes <= max_routing_table_size
    /\ "recovery_timer" \in ev.armed
    /\ recovery_timer # <<>>
    /\ recovery_timer[1].left = find_node_interval

(***************************************************************************)
(* Properties of the end of the find-close-node loop.                      *)
(***************************************************************************)
\* the setup wait elapsed on a running node with a peer in the routing table
SetupWaitFoundPeer ==
  /\ ev.op = "SetupWait"
  /\ ev.ec = "ok"
  /\ running
  /\ routing_table # {}

\* the wait FindClosestNode starts the recovery loop with
FirstRecoveryWait ==
  [Handler("RecoveryWait", 0, FALSE) EXCEPT
     !.lag = Elapses(Cur, find_node_interval), !.left = find_node_interval]

\* C23: once the routing table is non-empty, the next expiry of the setup
\* timer sends no FindNodes request, does not re-arm the setup timer and
\* arms the recovery timer for FindNodeInterval; and a setup wait is only
\* ever armed by a step that bootstraps or by a setup expiry that finds the
\* table empty, so none is outstanding after the loop ended until the next
\* bootstrap.
C23_FirstPeerEndsSetupLoop ==
  /\ SetupWaitFoundPeer =>
       /\ ~SentFindNodes
       /\ ev.direct = <<>>
       /\ ev.armed = {"recovery_timer"}
       /\ recovery_timer = <<FirstRecoveryWait>>
  /\ "setup_timer" \in ev.armed =>
       \/ ev.boot > 0
       \/ ev.op = "SetupWait" /\ routing_table = {}

\* the loop ended on its first expiry after a peer was admitted
C23_Witness ==
  /\ SetupWaitFoundPeer
  /\ ev.n >= 1
  /\ setup_timer = <<>>
  /\ recovery_timer # <<>>

(***************************************************************************)
(* Properties of the anonymous node.                                       *)
(***************************************************************************)
\* no timer has a wait pending
NoWaitPending ==
  setup_timer = <<>> /\ recovery_timer = <<>> /\ re_bootstrap_timer = <<>>

\* C24: an anonymous node sends no FindNodes request, arms no setup,
\* recovery or re-bootstrap timer and calls the transport's bootstrap only
\* in the host's Join; and when it handles the loss of its bootstrap
\* connection it clears the bootstrap connection info and reports
\* AnonymousSessionEnded.
C24_AnonymousStaysOnRelay ==
  /\ [](kAnonymousNode =>
          /\ ~SentFindNodes
          /\ ev.armed = {}
          /\ NoWaitPending
          /\ routing_table = {}
          /\ ev.boot > 0 => ev.op = "Join")
  /\ [][(/\ kAnonymousNode
          /\ running
          /\ ev'.op = "DoOnConnectionLost"
          /\ ~IsZero(bootstrap_connection_id)
          /\ ev'.n = bootstrap_connection_id) =>
            /\ IsZero(bootstrap_connection_id')
            /\ IsZero(this_node_relay_connection_id')
            /\ ev'.status = <<kAnonymousSessionEnded>>]_vars

\* an anonymous node has handled the loss of its bootstrap connection
C24_Witness ==
  /\ kAnonymousNode
  /\ ev.op = "DoOnConnectionLost"
  /\ ev.status = <<kAnonymousSessionEnded>>
  /\ IsZero(bootstrap_connection_id)

(***************************************************************************)
(* Properties of DoJoin.                                                   *)
(***************************************************************************)
\* the step ran DoJoin and DoJoin called the transport's bootstrap
DoJoinBootstrapped == ev.op \in {"Join", "ReBootstrapWait"} /\ ev.boot = 1

\* the notifications BootstrapFromTheseEndpoints made before it called
\* DoJoin: one by the routing table for each entry dropped, then the size
DroppedBeforeDoJoin == ev.removed \ BootstrapPeers

NotifiedBeforeDoJoin ==
  IF JoinedWithEndpoints /\ DroppedBeforeDoJoin # {}
  THEN Cardinality(DroppedBeforeDoJoin) + 1
  ELSE 0

\* the notifications DoJoin made: the rest of those of the step
DoJoinStatus == SubSeq(ev.status, NotifiedBeforeDoJoin + 1, Len(ev.status))

\* C25: when the transport's bootstrap fails inside DoJoin, DoJoin notifies
\* the network status once, with the error code, sends nothing and arms no
\* timer; when it succeeds on a node that is not anonymous, one FindNodes
\* request for 1 node goes to the bootstrap peer and DoJoin notifies
\* kSuccess once.
C25_DoJoinOutcome ==
  DoJoinBootstrapped =>
    /\ ev.ret # kSuccess =>
          /\ DoJoinStatus = <<ev.ret>>
          /\ ev.direct = <<>> /\ ev.closest = <<>>
          /\ ev.armed = {}
          /\ IsZero(bootstrap_connection_id)
    /\ (ev.ret = kSuccess /\ ~kAnonymousNode) =>
          /\ DoJoinStatus = <<kSuccess>>
          /\ ev.closest = <<>>
          /\ Len(ev.direct) = 1
          /\ ev.direct[1].to = bootstrap_connection_id
          /\ bootstrap_connection_id \in BootstrapPeers
          /\ ev.direct[1].msg.type = "kFindNodes"
          /\ ev.direct[1].msg.num_nodes = 1

\* a re-bootstrap failed in the transport
C25_Witness ==
  /\ DoJoinBootstrapped
  /\ ev.op = "ReBootstrapWait"
  /\ ev.ret = kTransportError
  /\ ev.status = <<kTransportError>>

(***************************************************************************)
(* Properties of the setup loop's destination.                             *)
(***************************************************************************)
\* C26: every FindNodes request a tick of the setup loop sends (the call
\* from DoJoin and every expiry of the setup timer) goes to a bootstrap
\* connection id that is not zero, also after the bootstrap connection was
\* lost and its id cleared.
C26_SetupLoopSendsToBootstrapPeer ==
  (ev.op \in {"Join", "SetupWait", "ReBootstrapWait"}) =>
    \A i \in 1..Len(ev.direct) :
      ev.direct[i].msg.type = "kFindNodes" => ~IsZero(ev.direct[i].to)

(***************************************************************************)
(* Properties of cancelled waits.                                          *)
(***************************************************************************)
TimerWaits == {"SetupWait", "RecoveryWait", "ReBootstrapWait"}

\* the step ran the handler of a wait that was cancelled
CancelledWaitRan == ev.op \in TimerWaits /\ ev.ec = "aborted"

\* C27: the handler of a cancelled wait does nothing: it sends no message,
\* arms no timer, calls no bootstrap, notifies nothing and leaves the timers,
\* the routing table and the bootstrap connection as they were; this holds
\* also for the wait ReSendFindNodeRequest arms, whose lambda tests the
\* enclosing call's error_code.
C27_CancelledWaitDoesNothing ==
  /\ [](CancelledWaitRan =>
          /\ ev.direct = <<>> /\ ev.closest = <<>>
          /\ ev.armed = {}
          /\ ev.boot = 0
          /\ ev.removed = {}
          /\ ev.status = <<>>)
  /\ [][CancelledWaitRan' =>
          UNCHANGED <<setup_timer, recovery_timer, re_bootstrap_timer,
                      routing_table, bootstrap_connection_id,
                      this_node_relay_connection_id, running>>]_vars

\* the cancelled wait was the one armed inside ReSendFindNodeRequest
C27_Witness ==
  /\ CancelledWaitRan
  /\ ev.op = "RecoveryWait"
  /\ ev.outer = "ok"
  /\ routing_table # {}

(***************************************************************************)
(* Properties of RemoveNode.                                               *)
(***************************************************************************)
\* the node the routing table removed is among the closest_nodes_size
\* closest of the table it left
RemovedWasInRange == IsThisNodeInRange(Cur, ev.n, closest_nodes_size)

\* the removal was not internal and the node removed was within range
RemovedCloseNode == ev.op = "DropNode" /\ ~ev.b /\ RemovedWasInRange

\* C28: RemoveNode does not change the routing table (after a removal the
\* table is the one the routing table left, and a call with an unset entry
\* leaves it as it was); called for an internal removal or with an entry
\* whose node id or connection id is zero it leaves every timer as it was;
\* and it arms the recovery timer, with recovery_time_lag, exactly for a
\* removal that is not internal of a node within range.
C28_RemoveNodeFrame ==
  /\ [][ev'.op = "DropNode" =>
          /\ \E node \in routing_table :
                node.node_id = ev'.n /\ routing_table' = routing_table \ {node}
          /\ UNCHANGED <<setup_timer, re_bootstrap_timer>>
          /\ ev'.b => UNCHANGED recovery_timer /\ ev'.armed = {}
          /\ RemovedCloseNode' <=> "recovery_timer" \in ev'.armed
          /\ RemovedCloseNode' => RecoveryScheduled'
          /\ ~RemovedCloseNode' => UNCHANGED <<recovery_timer, queue>>]_vars
  /\ [][ev'.op = "RemoveNode" =>
          /\ UNCHANGED <<routing_table, setup_timer, recovery_timer,
                          re_bootstrap_timer, queue>>
          /\ ev'.armed = {} /\ ev'.removed = {}]_vars

\* a close node was removed while a recovery wait was pending elsewhere
C28_Witness ==
  /\ RemovedCloseNode
  /\ RecoveryScheduled
  /\ Cardinality(routing_table) >= closest_nodes_size

(***************************************************************************)
(* Properties of running_mutex_.                                           *)
(***************************************************************************)
\* C29: no step acquires running_mutex_ while the thread running it holds
\* it, and every step ends with the mutex released: on each call path the
\* guard of one acquisition is out of scope before the next acquisition.
C29_NoRelock == ~ev.mutex.relock /\ ~ev.mutex.held

\* the re-bootstrap handler has run DoJoin, DoBootstrap and FindClosestNode,
\* four acquisitions one after the other
C29_Witness ==
  /\ ev.op = "ReBootstrapWait"
  /\ ev.mutex.locks >= 4
  /\ ~ev.mutex.held

(***************************************************************************)
(* Properties of FindGroupResponse.                                        *)
(***************************************************************************)
\* C30: the response built from a FindGroup request has the request's source
\* as its destination, the request's destination as its source and the
\* request's message_id, whatever the request's header.
C30_ResponseCorrelates ==
  response # NoMessage =>
    /\ response[1].header.destination =
         DestinationAddress(originator[1].header.source.data)
    /\ response[1].header.source =
         SourceAddress(originator[1].header.destination.data)
    /\ response[1].header.message_id = originator[1].header.message_id

\* a response was built from a request between two different addresses
C30_Witness ==
  /\ response # NoMessage
  /\ originator[1].header.source.data # originator[1].header.destination.data
  /\ response[1].header.destination.data = originator[1].header.source.data

=============================================================================
